---- MODULE Spec2Model ----
(***************************************************************************)
(* One-shot systems of bevy_ecs: the SystemRegistry resource, the World    *)
(* entry points that detach it for the duration of a call, and the two     *)
(* command adapters (crates/bevy_ecs/src/system/system_registry.rs).       *)
(*                                                                         *)
(* Execution is single-threaded and synchronous.  A call is modelled as a  *)
(* frame on `stack` that advances through the statements of the handler:   *)
(*   start -> run -> apply_deferred -> exit                                *)
(* Only the innermost frame can step, and a new top-level call can start   *)
(* only when the stack is empty, so nothing interleaves with the body of   *)
(* a handler.                                                              *)
(***************************************************************************)
EXTENDS Integers, Sequences, FiniteSets, TLC

VARIABLES
    registryRes,  \* the World's resource slot holding the SystemRegistry
    world,        \* the rest of the World the systems of the tests touch
    stack,        \* call frames of the one-shot executions in progress
    abortMsg,     \* "none", or the message of the panic that ended the run
    trace,        \* the finished top-level calls, in order, each with what it
                  \* returned and what the caller then reads in the world
    budget        \* top-level calls the behaviour may still make

vars == <<registryRes, world, stack, abortMsg, trace, budget>>

-----------------------------------------------------------------------------
(* Bounds *)

MaxCalls == 3    \* top-level calls of a behaviour of Spec
MaxRegs == 2     \* registrations of a behaviour
MaxRuns == 5     \* top-level calls of a behaviour of SpecById
MaxLife == 4     \* top-level calls of a behaviour of SpecLife

-----------------------------------------------------------------------------
(* The systems of the test module, by name.  spawn_then_run_by_id is not   *)
(* one of them: it queues a spawn and then the RunSystemById command for    *)
(* the identifier 1, the one command of the module no test queues.          *)

Kinds == {"count_up", "spawn_entity", "count_up_iff_changed", "doubling",
          "count_to_ten", "spawn_then_run_by_id"}

\* identifiers a caller can hold: those register may return, and one more
Ids == 1..(MaxRegs + 1)

RegistryNotFound == "SystemRegistry not found: Nested and recursive one-shot systems are not supported"
ResourceDoesNotExist == "Requested resource does not exist"
UnwrapOnErr == "called Result::unwrap() on an Err value: SystemIdNotRegistered"

\* commands a system can queue
SpawnEmpty == [cmd |-> "spawn_empty", kind |-> "none", id |-> 0]
RunSystemCommand(k) == [cmd |-> "run_system", kind |-> k, id |-> 0]
RunSystemById(i) == [cmd |-> "run_system_by_id", kind |-> "none", id |-> i]

-----------------------------------------------------------------------------
(* System objects (the BoxedSystem an entry or an ad hoc run owns) *)

\* IntoSystem::into_system: a fresh, uninitialized system object
IntoSystem(k) ==
    [kind |-> k, local |-> 0, last_run |-> 0, queue |-> <<>>,
     inits |-> 0, runs |-> 0]

\* System::initialize: builds the parameter state (Local at its default) and
\* places last_run before every tick of the world
Initialize(sys) ==
    [sys EXCEPT !.local = 0, !.last_run = 0, !.queue = <<>>, !.inits = @ + 1]

\* Res/ResMut::is_changed for the ChangeDetector resource
IsChanged(sys, w) == w.detector > sys.last_run

\* the function bodies of the systems in the test module (Counter is a u8;
\* the calls a behaviour makes keep it far below 255)
Body(sys, w) ==
    CASE sys.kind = "count_up" ->
            [sys |-> sys, world |-> [w EXCEPT !.counter = @ + 1]]
      [] sys.kind = "spawn_entity" ->
            [sys |-> [sys EXCEPT !.queue = Append(@, SpawnEmpty)], world |-> w]
      [] sys.kind = "count_up_iff_changed" ->
            [sys |-> sys,
             world |-> IF IsChanged(sys, w) THEN [w EXCEPT !.counter = @ + 1] ELSE w]
      [] sys.kind = "doubling" ->
            [sys |-> [sys EXCEPT !.local = w.counter + sys.local],
             world |-> [w EXCEPT !.counter = w.counter + sys.local]]
      [] sys.kind = "count_to_ten" ->
            [sys |-> IF w.counter + 1 < 10
                     THEN [sys EXCEPT !.queue = Append(@, RunSystemCommand("count_to_ten"))]
                     ELSE sys,
             world |-> [w EXCEPT !.counter = @ + 1]]
      [] sys.kind = "spawn_then_run_by_id" ->
            [sys |-> [sys EXCEPT !.queue = Append(Append(@, SpawnEmpty), RunSystemById(1))],
             world |-> w]

\* System::run: takes the world's change tick as this run's tick, advances the
\* world's tick, runs the body and remembers the tick as last_run
RunSystem(sys, w) ==
    LET this_run == w.change_tick
        out == Body(sys, [w EXCEPT !.change_tick = @ + 1])
    IN  [sys |-> [out.sys EXCEPT !.last_run = this_run, !.runs = @ + 1],
         world |-> out.world]

-----------------------------------------------------------------------------
(* The registry object and the World's resource slot *)

NoSystems == [i \in {} |-> [initialized |-> FALSE, system |-> IntoSystem("count_up")]]

\* SystemRegistry::default
DefaultRegistry == [last_id |-> 0, systems |-> NoSystems]

Attached(reg) == [present |-> TRUE, reg |-> reg]
Detached == [present |-> FALSE, reg |-> DefaultRegistry]

\* World::contains_resource::<SystemRegistry>
ContainsRegistry == registryRes.present

\* register taking the number of stored entries, plus one, as the identifier
register_counts_entries(reg, k) ==
    LET id == Cardinality(DOMAIN reg.systems) + 1
    IN  [last_id |-> id,
         systems |-> [i \in DOMAIN reg.systems \cup {id} |->
                        IF i = id
                        THEN [initialized |-> FALSE, system |-> IntoSystem(k)]
                        ELSE reg.systems[i]]]

\* register without line 94: the entry goes under last_id + 1 and last_id
\* stays
register_forgets_last_id(reg, k) ==
    LET id == reg.last_id + 1
    IN  [last_id |-> reg.last_id,
         systems |-> [i \in DOMAIN reg.systems \cup {id} |->
                        IF i = id
                        THEN [initialized |-> FALSE, system |-> IntoSystem(k)]
                        ELSE reg.systems[i]]]

\* SystemRegistry::register
register(reg, k) ==
    LET id == reg.last_id + 1
    IN  [last_id |-> id,
         systems |-> [i \in DOMAIN reg.systems \cup {id} |->
                        IF i = id
                        THEN [initialized |-> FALSE, system |-> IntoSystem(k)]
                        ELSE reg.systems[i]]]

\* remove keyed by the system rather than by the identifier: every entry that
\* holds the same system as the entry `id` goes
remove_same_system(reg, id) ==
    IF id \in DOMAIN reg.systems
    THEN [reg EXCEPT !.systems =
            [i \in {j \in DOMAIN reg.systems :
                        reg.systems[j].system.kind # reg.systems[id].system.kind}
                |-> reg.systems[i]]]
    ELSE reg

\* remove that hands the identifier back: removing the entry stored last
\* lowers last_id
remove_gives_id_back(reg, id) ==
    [last_id |-> IF id \in DOMAIN reg.systems /\ id = reg.last_id
                 THEN reg.last_id - 1 ELSE reg.last_id,
     systems |-> [i \in DOMAIN reg.systems \ {id} |-> reg.systems[i]]]

\* remove that leaves the entry where it is
remove_keeps_entry(reg, id) == reg

\* SystemRegistry::remove
remove(reg, id) ==
    [reg EXCEPT !.systems = [i \in DOMAIN reg.systems \ {id} |-> reg.systems[i]]]


-----------------------------------------------------------------------------
(* Call frames *)

\* a one-shot execution in progress: the entry point that started it (op,
\* and via = "command" when a command's apply made the call), its argument,
\* the statement it is at, the registry object resource_scope moved out of
\* the World for it, and the system object an ad hoc run owns; entry keeps
\* the world and the registry as they were when the call was made
NewFrame(op, via, k, id, reg) ==
    [op |-> op, via |-> via, kind |-> k, id |-> id, pc |-> "start",
     registry |-> reg, sys |-> IntoSystem(k), ret |-> "none",
     entry |-> [world |-> world, registry |-> reg]]

\* a finished top-level call as its caller sees it (the first event is the
\* construction of the World and of its Counter): what was called with
\* which argument, what it returned (for register_system the identifier is
\* id), and the Counter and the number of entities read right after it
Event(op, via, k, id, ret, w) ==
    [op |-> op, via |-> via, kind |-> k, id |-> id, ret |-> ret,
     counter |-> w.counter, entities |-> w.entities]

Top == stack[Len(stack)]
ReplaceTop(f) == [stack EXCEPT ![Len(stack)] = f]
Pop == SubSeq(stack, 1, Len(stack) - 1)

ByIdOps == {"run_system_by_id", "RunSystemById"}

\* the system object the frame is executing
CurSystem(f) ==
    IF f.op = "run_system" THEN f.sys ELSE f.registry.systems[f.id].system

\* run_by_id working on a copy of the stored system: what the run leaves in
\* the system object is lost
SetSystemOnCopy(f, s) ==
    IF f.op = "run_system" THEN [f EXCEPT !.sys = s] ELSE f

SetSystem(f, s) ==
    IF f.op = "run_system"
    THEN [f EXCEPT !.sys = s]
    ELSE [f EXCEPT !.registry.systems[f.id].system = s]

Idle == stack = <<>> /\ abortMsg = "none"
Running == stack # <<>> /\ abortMsg = "none"

\* the guard left out: the call goes straight to resource_scope
RegistryGuardMissing == TRUE

\* the guard that opens World::run_system, World::run_system_by_id,
\* World::register_system and RunSystemById::apply
RegistryGuard == ContainsRegistry

\* a panic: the message is recorded and nothing else happens any more
Panic(msg) ==
    /\ abortMsg' = msg
    /\ UNCHANGED <<registryRes, world, stack, trace>>

\* World::resource_scope, first half: the registry is moved out of the World
\* and the closure starts with the world and the detached registry
ResourceScopeEnter(stk, op, via, k, id) ==
    IF ~registryRes.present
    THEN Panic(ResourceDoesNotExist)
    ELSE /\ stack' = Append(stk, NewFrame(op, via, k, id, registryRes.reg))
         /\ registryRes' = Detached
         /\ UNCHANGED <<abortMsg, world, trace>>

\* an entry point that detaches whatever it finds: with the registry already
\* taken out, the nested execution starts on a default registry
EnterUnguarded(stk, op, via, k, id) ==
    IF registryRes.present
    THEN ResourceScopeEnter(stk, op, via, k, id)
    ELSE /\ stack' = Append(stk, NewFrame(op, via, k, id, DefaultRegistry))
         /\ registryRes' = Detached
         /\ UNCHANGED <<abortMsg, world, trace>>

\* the head of World::run_system, World::run_system_by_id and
\* RunSystemById::apply: the guard, then resource_scope
Enter(stk, op, via, k, id) ==
    IF ~RegistryGuard
    THEN Panic(RegistryNotFound)
    ELSE ResourceScopeEnter(stk, op, via, k, id)

-----------------------------------------------------------------------------
(* Statements of SystemRegistry::run and SystemRegistry::run_by_id *)

\* run keyed by the system's type: an initialized entry of the registry that
\* holds the same system is used in place of a new object
run_reuses_stored(f) ==
    LET S == {i \in DOMAIN f.registry.systems :
                /\ f.registry.systems[i].initialized
                /\ f.registry.systems[i].system.kind = f.kind}
    IN  IF S = {}
        THEN [f EXCEPT !.sys = Initialize(IntoSystem(f.kind)), !.pc = "run"]
        ELSE [f EXCEPT !.sys = f.registry.systems[CHOOSE i \in S : TRUE].system,
                       !.pc = "run"]

\* run that registers the system it is given before it runs it: the
\* registry gains an entry and last_id moves on
run_registers(f) ==
    [f EXCEPT !.sys = Initialize(IntoSystem(f.kind)), !.pc = "run",
              !.registry = register(f.registry, f.kind)]

\* SystemRegistry::run, lines 115-116: construct and initialize
run_construct(f) ==
    [f EXCEPT !.sys = Initialize(IntoSystem(f.kind)), !.pc = "run"]

\* run_by_id without the test of the flag: the entry is initialized on
\* every call
run_by_id_always_initializes(f) ==
    IF f.id \in DOMAIN f.registry.systems
    THEN [f EXCEPT !.registry.systems[f.id] =
                        [initialized |-> TRUE,
                         system |-> Initialize(f.registry.systems[f.id].system)],
                   !.pc = "run"]
    ELSE [f EXCEPT !.ret = "Err", !.pc = "exit"]

\* run_by_id with the None arm returning Ok(())
run_by_id_missing_is_ok(f) ==
    IF f.id \in DOMAIN f.registry.systems
    THEN LET e == f.registry.systems[f.id]
         IN  IF ~e.initialized
             THEN [f EXCEPT !.registry.systems[f.id] =
                                [initialized |-> TRUE, system |-> Initialize(e.system)],
                            !.pc = "run"]
             ELSE [f EXCEPT !.pc = "run"]
    ELSE [f EXCEPT !.ret = "Ok", !.pc = "exit"]

\* SystemRegistry::run_by_id, lines 130-135 and 140: look the entry up,
\* initialize it when its flag is false
run_by_id_lookup(f) ==
    IF f.id \in DOMAIN f.registry.systems
    THEN LET e == f.registry.systems[f.id]
         IN  IF ~e.initialized
             THEN [f EXCEPT !.registry.systems[f.id] =
                                [initialized |-> TRUE, system |-> Initialize(e.system)],
                            !.pc = "run"]
             ELSE [f EXCEPT !.pc = "run"]
    ELSE [f EXCEPT !.ret = "Err", !.pc = "exit"]

\* the first statement of the closure passed to resource_scope
StartStep ==
    /\ Running
    /\ Top.pc = "start"
    /\ stack' = ReplaceTop(IF Top.op = "run_system"
                           THEN run_construct(Top)
                           ELSE run_by_id_lookup(Top))
    /\ UNCHANGED <<registryRes, world, abortMsg, trace, budget>>

\* boxed_system.run((), world) / matching_system.run((), world)
RunStep ==
    /\ Running
    /\ Top.pc = "run"
    /\ LET out == RunSystem(CurSystem(Top), world)
       IN  /\ world' = out.world
           /\ stack' = ReplaceTop([SetSystem(Top, out.sys) EXCEPT !.pc = "apply_deferred"])
    /\ UNCHANGED <<registryRes, abortMsg, trace, budget>>

\* Command::apply of one queued command, the frame's queue already advanced
ApplyCommand(stk, c) ==
    CASE c.cmd = "spawn_empty" ->
            /\ world' = [world EXCEPT !.entities = @ + 1]
            /\ stack' = stk
            /\ UNCHANGED <<registryRes, abortMsg, trace>>
      [] c.cmd = "run_system" ->
            Enter(stk, "run_system", "command", c.kind, 0)
      [] c.cmd = "run_system_by_id" ->
            Enter(stk, "RunSystemById", "command", "none", c.id)

\* the registry method without its apply_deferred call: it returns with the
\* commands still queued
ApplyDeferredSkipped ==
    /\ Running
    /\ Top.pc = "apply_deferred"
    /\ stack' = ReplaceTop([Top EXCEPT !.ret = "Ok", !.pc = "exit"])
    /\ UNCHANGED <<registryRes, world, abortMsg, trace, budget>>

\* apply_deferred that takes the commands from the back of the queue: the
\* command queued last is applied first
ApplyDeferredLastFirst ==
    /\ Running
    /\ Top.pc = "apply_deferred"
    /\ LET q == CurSystem(Top).queue
       IN  IF q = <<>>
           THEN /\ stack' = ReplaceTop([Top EXCEPT !.ret = "Ok", !.pc = "exit"])
                /\ UNCHANGED <<registryRes, world, abortMsg, trace>>
           ELSE ApplyCommand(ReplaceTop(SetSystem(Top,
                                [CurSystem(Top) EXCEPT !.queue = SubSeq(q, 1, Len(q) - 1)])),
                             q[Len(q)])
    /\ UNCHANGED budget

\* apply_deferred(world): the queued commands are applied one by one, in the
\* order they were queued; with the queue empty the registry method returns
ApplyDeferredStep ==
    /\ Running
    /\ Top.pc = "apply_deferred"
    /\ LET q == CurSystem(Top).queue
       IN  IF q = <<>>
           THEN /\ stack' = ReplaceTop([Top EXCEPT !.ret = "Ok", !.pc = "exit"])
                /\ UNCHANGED <<registryRes, world, abortMsg, trace>>
           ELSE ApplyCommand(ReplaceTop(SetSystem(Top, [CurSystem(Top) EXCEPT !.queue = Tail(q)])),
                             Head(q))
    /\ UNCHANGED budget

\* World::resource_scope, second half: the registry object the closure used is
\* put back into the World
ResourceScopeExit(f) ==
    /\ registryRes' = Attached(f.registry)
    /\ stack' = Pop
    /\ trace' = IF Len(stack) = 1
                THEN Append(trace, Event(f.op, f.via, f.kind, f.id, f.ret, world))
                ELSE trace
    /\ UNCHANGED <<world, abortMsg>>

\* an Err that leaves the entry point before the registry is put back
ExitStepLeaksOnErr ==
    /\ Running
    /\ Top.pc = "exit"
    /\ IF Top.op = "RunSystemById" /\ Top.ret = "Err"
       THEN Panic(UnwrapOnErr)
       ELSE IF Top.ret = "Err"
            THEN /\ stack' = Pop
                 /\ trace' = Append(trace, Event(Top.op, Top.via, Top.kind, Top.id,
                                                 Top.ret, world))
                 /\ UNCHANGED <<registryRes, world, abortMsg>>
            ELSE ResourceScopeExit(Top)
    /\ UNCHANGED budget

\* RunSystemById::apply without the unwrap: the Err is dropped and the
\* command returns as after a run
ExitStepSwallowsErr ==
    /\ Running
    /\ Top.pc = "exit"
    /\ ResourceScopeExit(Top)
    /\ UNCHANGED budget

\* the closure returns: RunSystemById::apply unwraps the result inside the
\* closure, the World methods hand it to resource_scope
ExitStep ==
    /\ Running
    /\ Top.pc = "exit"
    /\ IF Top.op = "RunSystemById" /\ Top.ret = "Err"
       THEN Panic(UnwrapOnErr)
       ELSE ResourceScopeExit(Top)
    /\ UNCHANGED budget

-----------------------------------------------------------------------------
(* Top-level calls *)

CanCall == Idle /\ budget > 0

\* World::register_system
RegisterSystem(k) ==
    /\ CanCall
    /\ registryRes.reg.last_id < MaxRegs
    /\ budget' = budget - 1
    /\ IF ~RegistryGuard
       THEN Panic(RegistryNotFound)
       ELSE /\ registryRes' = Attached(register(registryRes.reg, k))
            /\ trace' = Append(trace, Event("register_system", "world", k,
                                             registryRes.reg.last_id + 1, "Id", world))
            /\ UNCHANGED <<world, stack, abortMsg>>

\* world.resource_mut::<SystemRegistry>().remove(id)
RemoveSystem(id) ==
    /\ CanCall
    /\ ContainsRegistry
    /\ budget' = budget - 1
    /\ registryRes' = Attached(remove(registryRes.reg, id))
    /\ trace' = Append(trace, Event("remove", "world", "none", id, "Unit", world))
    /\ UNCHANGED <<world, stack, abortMsg>>

\* World::run_system
CallRunSystem(k) ==
    /\ CanCall
    /\ budget' = budget - 1
    /\ Enter(stack, "run_system", "world", k, 0)

\* World::run_system_by_id
CallRunSystemById(id) ==
    /\ CanCall
    /\ budget' = budget - 1
    /\ Enter(stack, "run_system_by_id", "world", "none", id)

\* a RunSystemCommand that runs the system's function on the world and
\* returns, the commands the system queued never applied
ApplyRunSystemCommandNoFlush(k) ==
    /\ CanCall
    /\ budget' = budget - 1
    /\ world' = RunSystem(Initialize(IntoSystem(k)), world).world
    /\ trace' = Append(trace, Event("run_system", "command", k, 0, "Ok", world'))
    /\ UNCHANGED <<registryRes, stack, abortMsg>>

\* RunSystemCommand::apply
ApplyRunSystemCommand(k) ==
    /\ CanCall
    /\ budget' = budget - 1
    /\ Enter(stack, "run_system", "command", k, 0)

\* RunSystemById::apply
ApplyRunSystemById(id) ==
    /\ CanCall
    /\ budget' = budget - 1
    /\ Enter(stack, "RunSystemById", "command", "none", id)

\* world.resource_mut::<ChangeDetector>().set_changed()
SetChanged ==
    /\ CanCall
    /\ budget' = budget - 1
    /\ world' = [world EXCEPT !.detector = world.change_tick]
    /\ trace' = Append(trace, Event("set_changed", "world", "none", 0, "Unit", world))
    /\ UNCHANGED <<registryRes, stack, abortMsg>>

-----------------------------------------------------------------------------
(* Specification *)

\* World::new, then init_resource of the Counter and ChangeDetector
InitWorld(c) == [counter |-> c, entities |-> 0, detector |-> 1, change_tick |-> 1]

InitWith(c, b) ==
    /\ registryRes = Attached(DefaultRegistry)
    /\ world = InitWorld(c)
    /\ stack = <<>>
    /\ abortMsg = "none"
    /\ trace = <<Event("new", "world", "none", 0, "Unit", InitWorld(c))>>
    /\ budget = b

Init == \E c \in {0, 1} : InitWith(c, MaxCalls)

Step == StartStep \/ RunStep \/ ApplyDeferredStep \/ ExitStep

Next ==
    \/ \E k \in Kinds : RegisterSystem(k)
    \/ \E id \in Ids : RemoveSystem(id)
    \/ \E k \in Kinds : CallRunSystem(k)
    \/ \E id \in Ids : CallRunSystemById(id)
    \/ \E k \in Kinds : ApplyRunSystemCommand(k)
    \/ \E id \in Ids : ApplyRunSystemById(id)
    \/ SetChanged
    \/ Step

Spec == Init /\ [][Next]_vars

\* The registered systems that keep state between their runs, run by their
\* identifiers: the sequences of tests::local_variables and
\* tests::change_detection and every other sequence of the same calls
ByIdKinds == {"doubling", "count_up_iff_changed"}

InitById == \E c \in {0, 1} : InitWith(c, MaxRuns)

NextById ==
    \/ \E k \in ByIdKinds : RegisterSystem(k)
    \/ \E id \in Ids : CallRunSystemById(id)
    \/ SetChanged
    \/ Step

SpecById == InitById /\ [][NextById]_vars

\* The life of an identifier: registrations, removals and runs by identifier
\* of count_up and count_to_ten, in every order
LifeKinds == {"count_up", "count_to_ten"}

InitLife == \E c \in {0, 1} : InitWith(c, MaxLife)

NextLife ==
    \/ \E k \in LifeKinds : RegisterSystem(k)
    \/ \E id \in Ids : RemoveSystem(id)
    \/ \E id \in Ids : CallRunSystemById(id)
    \/ Step

SpecLife == InitLife /\ [][NextLife]_vars

-----------------------------------------------------------------------------
(* Derived views of the state *)

\* the registry object, wherever it is: in the World, or moved out by the
\* outermost resource_scope
CurRegistry ==
    IF registryRes.present THEN registryRes.reg ELSE stack[1].registry

\* the innermost execution is about to apply a queued command that starts a
\* one-shot execution
NestedAttempt ==
    /\ Running
    /\ Top.pc = "apply_deferred"
    /\ CurSystem(Top).queue # <<>>
    /\ Head(CurSystem(Top).queue).cmd \in {"run_system", "run_system_by_id"}

-----------------------------------------------------------------------------
(* Claims *)

\* C1: while a one-shot system started through the World methods or the
\* command adapters is executing, an attempt to start another one-shot
\* execution (a queued RunSystemCommand or RunSystemById being applied) can
\* always proceed (it does not block) and its one outcome is the
\* "SystemRegistry not found" panic: no frame is pushed, the world and the
\* registry stay as they are (the inner body does not run), and executions are
\* never nested.
C1_NestedCallAborts ==
    /\ [](NestedAttempt => ENABLED ApplyDeferredStep)
    /\ [][ /\ NestedAttempt =>
                /\ abortMsg' = RegistryNotFound
                /\ world' = world
                /\ stack' = stack
                /\ registryRes' = registryRes
           /\ Len(stack') <= 1 ]_vars

\* the recursion test: count_to_ten ran once, queued itself, and the panic
\* stopped the run while its commands were being applied
C1_Witness ==
    /\ abortMsg = RegistryNotFound
    /\ Len(stack) = 1
    /\ stack[1].kind = "count_to_ten"
    /\ stack[1].pc = "apply_deferred"
    /\ stack[1].sys.runs = 1
    /\ world.counter = stack[1].entry.world.counter + 1

\* the last finished call
Last(seq) == seq[Len(seq)]

\* the call before call i that ran the entry `id` and returned Ok (0: none)
PrevRun(i, id) ==
    LET S == {j \in 1..(i - 1) :
                /\ trace[j].op \in ByIdOps
                /\ trace[j].id = id
                /\ trace[j].ret = "Ok"}
    IN  IF S = {} THEN 0 ELSE CHOOSE j \in S : \A l \in S : l <= j

\* the system registered under `id`, by the call that returned `id`
KindOf(id) ==
    LET S == {j \in 1..Len(trace) :
                trace[j].op = "register_system" /\ trace[j].id = id}
    IN  IF S = {} THEN "none" ELSE trace[CHOOSE j \in S : TRUE].kind

\* call i ran the entry `id`, a system of kind k, and returned Ok
RanById(i, k) ==
    /\ trace[i].op \in ByIdOps
    /\ trace[i].ret = "Ok"
    /\ KindOf(trace[i].id) = k

RECURSIVE Pow2(_)
Pow2(n) == IF n <= 0 THEN 1 ELSE 2 * Pow2(n - 1)

\* the calls that ran the entry `id` and returned Ok
OkRuns(id) ==
    Cardinality({i \in 1..Len(trace) :
                    /\ trace[i].op \in ByIdOps
                    /\ trace[i].id = id
                    /\ trace[i].ret = "Ok"})

\* C2: for every entry of the registry, initialize has been performed once if
\* the entry has been run and not at all otherwise (so it precedes the first
\* run), the run step has been performed once per run_by_id call on it (one
\* more while such a call is in progress), and the initialized flag of an
\* entry never goes back from true to false.  register(count_up) followed by
\* two runs by its identifier on a Counter of 0 reads 1 and then 2.
C2_InitOnceRunEachCall ==
    /\ [](\A id \in DOMAIN CurRegistry.systems :
            LET e == CurRegistry.systems[id]
            IN  /\ e.system.inits = (IF e.initialized THEN 1 ELSE 0)
                /\ e.system.runs > 0 => e.initialized
                /\ OkRuns(id) <= e.system.runs
                /\ e.system.runs <= OkRuns(id) + 1
                /\ Idle => e.system.runs = OkRuns(id))
    /\ [](\A r \in 1..(Len(trace) - 2) :
            ( /\ trace[r].op = "register_system"
              /\ trace[r].kind = "count_up"
              /\ trace[r].counter = 0
              /\ \A j \in {r + 1, r + 2} :
                    /\ trace[j].op \in ByIdOps
                    /\ trace[j].id = trace[r].id )
            => (trace[r + 1].counter = 1 /\ trace[r + 2].counter = 2))
    /\ [][\A id \in DOMAIN CurRegistry.systems \cap DOMAIN CurRegistry'.systems :
            CurRegistry.systems[id].initialized
                => CurRegistry'.systems[id].initialized]_vars

\* count_up registered and run twice by its identifier
C2_Witness ==
    /\ Idle
    /\ \E id \in DOMAIN CurRegistry.systems :
          /\ CurRegistry.systems[id].system.kind = "count_up"
          /\ CurRegistry.systems[id].initialized
          /\ CurRegistry.systems[id].system.inits = 1
          /\ CurRegistry.systems[id].system.runs = 2
    /\ trace[1].counter = 0
    /\ world.counter = 2

\* a by-identifier call whose identifier had no entry when the call was made
UnknownIdCall(f) ==
    f.op \in ByIdOps /\ f.id \notin DOMAIN f.entry.registry.systems

\* C3: a run by an identifier that has no entry runs nothing and changes
\* nothing: the frame goes from the lookup straight to its return with Err,
\* the world and the registry are as they were when the call was made, and
\* World::run_system_by_id returns SystemIdNotRegistered(id) to its caller
\* with that same registry back in the World.
C3_UnknownIdIsErr ==
    /\ [](\A n \in 1..Len(stack) :
            UnknownIdCall(stack[n]) =>
                /\ stack[n].pc \in {"start", "exit"}
                /\ stack[n].pc = "exit" => stack[n].ret = "Err"
                /\ world = stack[n].entry.world
                /\ stack[n].registry = stack[n].entry.registry)
    /\ [][ ( /\ Len(stack) = 1
             /\ Top.op = "run_system_by_id"
             /\ UnknownIdCall(Top)
             /\ stack' = <<>> )
           => /\ Last(trace') = Event("run_system_by_id", "world", "none", Top.id,
                                      "Err", Top.entry.world)
              /\ world' = Top.entry.world
              /\ registryRes' = Attached(Top.entry.registry) ]_vars

\* an unknown identifier was run while another identifier is registered
C3_Witness ==
    /\ Idle
    /\ Last(trace).op = "run_system_by_id"
    /\ Last(trace).ret = "Err"
    /\ DOMAIN registryRes.reg.systems # {}
    /\ Last(trace).id \notin DOMAIN registryRes.reg.systems

\* C4: between calls the registry is in the World; whenever a top-level call
\* returns, with Ok or with Err, what is put back is the registry object the
\* call worked on, as it was at the end of the call; and the "SystemRegistry
\* not found" panic is never raised by a call made between executions.
C4_RegistryReattached ==
    /\ [](Idle => ContainsRegistry)
    /\ [](abortMsg \in {RegistryNotFound, ResourceDoesNotExist} => stack # <<>>)
    /\ [][ (Len(stack) = 1 /\ stack' = <<>>)
           => registryRes' = Attached(Top.registry) ]_vars

\* a call returned Err and the next call on the same world ran a system
C4_Witness ==
    /\ Idle
    /\ Len(trace) >= 3
    /\ trace[Len(trace) - 1].op = "run_system_by_id"
    /\ trace[Len(trace) - 1].ret = "Err"
    /\ Last(trace).op = "run_system"
    /\ Last(trace).ret = "Ok"
    /\ registryRes.reg.last_id = 1

\* C5: the commands a system queues are applied after its run step, head of
\* the queue first, and none is left when the registry method returns: the
\* world is untouched until the run step, applying a queued spawn adds one
\* entity and leaves the rest of the queue, a frame that returns Ok has an
\* empty queue, no stored system holds a command between calls, and a caller
\* that ran spawn_entity reads one entity more right after the call.
C5_CommandsFlushedInOrder ==
    /\ [](\A n \in 1..Len(stack) :
            /\ stack[n].pc \in {"start", "run"} => world = stack[n].entry.world
            /\ (stack[n].pc = "exit" /\ stack[n].ret = "Ok")
                    => CurSystem(stack[n]).queue = <<>>)
    /\ [](Idle => \A id \in DOMAIN registryRes.reg.systems :
                        registryRes.reg.systems[id].system.queue = <<>>)
    /\ [](\A i \in 2..Len(trace) :
            (trace[i].op = "run_system" /\ trace[i].kind = "spawn_entity")
                => trace[i].entities = trace[i - 1].entities + 1)
    /\ [][ ( /\ Running
             /\ Top.pc = "apply_deferred"
             /\ CurSystem(Top).queue # <<>>
             /\ Head(CurSystem(Top).queue) = SpawnEmpty )
           => /\ world' = [world EXCEPT !.entities = @ + 1]
              /\ Len(stack') = Len(stack)
              /\ CurSystem(stack'[Len(stack')]).queue = Tail(CurSystem(Top).queue) ]_vars

\* spawn_entity was run twice: the second call found the first one's entity
C5_Witness ==
    /\ Idle
    /\ Len(trace) >= 3
    /\ Last(trace).kind = "spawn_entity"
    /\ trace[Len(trace) - 1].kind = "spawn_entity"
    /\ trace[Len(trace) - 1].op = "run_system"
    /\ Last(trace).op = "run_system"
    /\ world.entities = 2

\* C6: a registered doubling system reads in each run the Local it wrote in
\* its previous run by the same identifier (0 before its first run): the
\* Counter grows in each run by the value it had after the previous run of
\* that identifier, the stored Local is the Counter of its last run, and run
\* n times in a row right after its registration on a Counter of 1 it leaves
\* 1, 2, 4, 8, ...
C6_LocalPersistsById ==
    /\ \A i \in 2..Len(trace) :
          RanById(i, "doubling") =>
              trace[i].counter = trace[i - 1].counter
                  + (IF PrevRun(i, trace[i].id) = 0 THEN 0
                     ELSE trace[PrevRun(i, trace[i].id)].counter)
    /\ Idle =>
          \A id \in DOMAIN registryRes.reg.systems :
              LET sys == registryRes.reg.systems[id].system
              IN  (sys.kind = "doubling" /\ sys.runs > 0)
                      => sys.local = trace[PrevRun(Len(trace) + 1, id)].counter
    /\ \A r \in 2..Len(trace) : \A n \in (r + 1)..Len(trace) :
          ( /\ trace[r].op = "register_system"
            /\ trace[r].kind = "doubling"
            /\ trace[r].counter = 1
            /\ \A j \in (r + 1)..n :
                  trace[j].op = "run_system_by_id" /\ trace[j].id = trace[r].id )
          => trace[n].counter = Pow2(n - r - 1)

\* tests::local_variables: the Counter reads 1, 2, 4, 8
C6_Witness ==
    /\ Idle
    /\ Len(trace) = 6
    /\ trace[1].counter = 1
    /\ trace[2].op = "register_system" /\ trace[2].kind = "doubling"
    /\ \A j \in 3..6 : trace[j].op = "run_system_by_id" /\ trace[j].id = trace[2].id
    /\ <<trace[3].counter, trace[4].counter, trace[5].counter, trace[6].counter>>
          = <<1, 2, 4, 8>>
    /\ registryRes.reg.systems[trace[2].id].system.local = 8

\* C7: an ad hoc run works on a system object of its own, built and
\* initialized in that call: whatever was run before, when its run step
\* starts the object is the freshly initialized one (Local at its default,
\* nothing seen yet by its change tracking, initialized once, never run), and
\* when the call returns the object is gone: the registry holds the entries
\* it held when the call was made, each with the system object it had.
C7_AdHocStartsFresh ==
    /\ [](\A n \in 1..Len(stack) :
            (stack[n].op = "run_system" /\ stack[n].pc = "run")
                => /\ stack[n].sys = Initialize(IntoSystem(stack[n].kind))
                   /\ stack[n].sys.local = 0
                   /\ IsChanged(stack[n].sys, world))
    /\ [][ (Len(stack) = 1 /\ Top.op = "run_system" /\ stack' = <<>>)
           => registryRes'.reg.systems = Top.entry.registry.systems ]_vars

\* the second of two ad hoc runs of doubling on a Counter of 1 is about to
\* run: the first one wrote 1 to its Local
C7_Witness ==
    /\ Running
    /\ Top.op = "run_system"
    /\ Top.kind = "doubling"
    /\ Top.pc = "run"
    /\ Len(trace) >= 2
    /\ Last(trace).op = "run_system"
    /\ Last(trace).kind = "doubling"
    /\ Last(trace).counter = 1
    /\ Top.sys.local = 0

\* call i was World::run_system (or RunSystemCommand::apply) with system k
RanAdHoc(i, k) ==
    trace[i].op = "run_system" /\ trace[i].kind = k /\ trace[i].ret = "Ok"

\* C8: run_system caches the system's state for the next run_system call with
\* the same system (documentation of the type, lines 13, 29-31 and 51-52), so
\* the second of two such calls of doubling in a row reads the Local the
\* first one wrote and doubles the Counter. SystemRegistry::run builds and
\* initializes a new system object in every call (lines 115-116): from a
\* Counter of 1 the two calls leave 1 and 1.
C8_AsDocumented ==
    \A i \in 2..(Len(trace) - 1) :
        (RanAdHoc(i, "doubling") /\ RanAdHoc(i + 1, "doubling"))
            => trace[i + 1].counter = trace[i].counter + trace[i].counter

\* C9: a registered count_up_iff_changed, run by its identifier, adds 1 to the
\* Counter exactly in the runs before which the ChangeDetector was marked
\* changed since the previous run of that identifier, and in its first run
\* (the resource was added before it); in every other run it adds nothing.
C9_ChangedSincePreviousRun ==
    \A i \in 2..Len(trace) :
        RanById(i, "count_up_iff_changed") =>
            LET p == PrevRun(i, trace[i].id)
                changed == \/ p = 0
                           \/ \E j \in (p + 1)..(i - 1) : trace[j].op = "set_changed"
            IN  trace[i].counter = trace[i - 1].counter + (IF changed THEN 1 ELSE 0)

\* tests::change_detection: run, run, set_changed, run gives +1, +0, +1
C9_Witness ==
    /\ Idle
    /\ Len(trace) = 6
    /\ trace[1].counter = 0
    /\ trace[2].op = "register_system" /\ trace[2].kind = "count_up_iff_changed"
    /\ \A j \in {3, 4, 6} :
          trace[j].op = "run_system_by_id" /\ trace[j].id = trace[2].id
    /\ trace[5].op = "set_changed"
    /\ <<trace[3].counter, trace[4].counter, trace[5].counter, trace[6].counter>>
          = <<1, 1, 1, 2>>

\* the calls of register_system, in order
RegisterCalls == SelectSeq(trace, LAMBDA e : e.op = "register_system")

\* C10: last_id is the number of registrations made so far (0 at first) and
\* never decreases, and the k-th registration returns the identifier k, so
\* the identifiers returned are 1, 2, 3, ... and none is returned twice,
\* removals or not.
C10_IdsCountUp ==
    /\ [](CurRegistry.last_id = Len(RegisterCalls))
    /\ [](\A k \in 1..Len(RegisterCalls) : RegisterCalls[k].id = k)
    /\ [](\A j, k \in 1..Len(RegisterCalls) :
            RegisterCalls[j].id = RegisterCalls[k].id => j = k)
    /\ [][CurRegistry'.last_id >= CurRegistry.last_id]_vars

\* a registration made after the only entry was removed got a new identifier
C10_Witness ==
    /\ Idle
    /\ Len(trace) = 4
    /\ trace[2].op = "register_system" /\ trace[2].id = 1
    /\ trace[3].op = "remove" /\ trace[3].id = 1
    /\ trace[4].op = "register_system" /\ trace[4].id = 2
    /\ DOMAIN registryRes.reg.systems = {2}
    /\ registryRes.reg.last_id = 2

\* the step is a finished call of `op` (the call is the last of trace')
Finishes(op) ==
    /\ Len(trace') = Len(trace) + 1
    /\ Last(trace').op = op

\* C11: every registration, also of a system that is already stored, adds one
\* entry under the identifier it returns, not initialized and with a system
\* object of its own, and keeps the entries there were; two registrations of
\* the same system return two identifiers; a step of a run by identifier
\* changes no entry but the one it runs, and a removal no entry but the one it
\* removes.
C11_EntriesAreIndependent ==
    /\ [](\A i, j \in 2..Len(trace) :
            ( /\ i # j
              /\ trace[i].op = "register_system"
              /\ trace[j].op = "register_system" )
            => trace[i].id # trace[j].id)
    /\ [][ Finishes("register_system") =>
             LET id == Last(trace').id
             IN  /\ id \notin DOMAIN registryRes.reg.systems
                 /\ DOMAIN registryRes'.reg.systems
                        = DOMAIN registryRes.reg.systems \cup {id}
                 /\ registryRes'.reg.systems[id]
                        = [initialized |-> FALSE,
                           system |-> IntoSystem(Last(trace').kind)]
                 /\ \A j \in DOMAIN registryRes.reg.systems :
                        registryRes'.reg.systems[j] = registryRes.reg.systems[j] ]_vars
    /\ [][ \A j \in DOMAIN CurRegistry.systems :
             ( /\ ~(Running /\ Top.op \in ByIdOps /\ Top.id = j)
               /\ ~(Finishes("remove") /\ Last(trace').id = j) )
             => /\ j \in DOMAIN CurRegistry'.systems
                /\ CurRegistry'.systems[j] = CurRegistry.systems[j] ]_vars

\* doubling registered twice, the first entry run once: its Local is written,
\* the second entry is as registered
C11_Witness ==
    /\ Idle
    /\ DOMAIN registryRes.reg.systems = {1, 2}
    /\ registryRes.reg.systems[1].system.kind = "doubling"
    /\ registryRes.reg.systems[2].system.kind = "doubling"
    /\ registryRes.reg.systems[1].initialized
    /\ registryRes.reg.systems[1].system.local = 1
    /\ registryRes.reg.systems[2] = [initialized |-> FALSE, system |-> IntoSystem("doubling")]

\* C12, as the documentation of register states it: registering a system that
\* is already registered has no effect, the registry stays as the first
\* registration left it.
C12_RegisterTwiceNoEffect ==
    [][ ( /\ Finishes("register_system")
          /\ \E j \in DOMAIN registryRes.reg.systems :
                registryRes.reg.systems[j].system.kind = Last(trace').kind )
        => registryRes' = registryRes ]_vars

\* before call i, `id` was returned by a registration and not removed since
LiveAt(i, id) ==
    \E r \in 2..(i - 1) :
        /\ trace[r].op = "register_system"
        /\ trace[r].id = id
        /\ \A j \in (r + 1)..(i - 1) :
              ~(trace[j].op = "remove" /\ trace[j].id = id)

\* before call i, `id` was removed after a registration had returned it
RemovedBefore(i, id) ==
    \E r \in 2..(i - 1) : \E j \in (r + 1)..(i - 1) :
        /\ trace[r].op = "register_system"
        /\ trace[r].id = id
        /\ trace[j].op = "remove"
        /\ trace[j].id = id

\* C13: a run by an identifier returns Ok when the identifier was returned by
\* a registration and has not been removed since, and the unknown-identifier
\* error otherwise; once the identifier has been removed every later run by
\* it returns the error, whatever was registered in between.
C13_ValidUntilRemoved ==
    /\ \A i \in 2..Len(trace) :
            trace[i].op = "run_system_by_id" =>
                /\ LiveAt(i, trace[i].id) => trace[i].ret = "Ok"
                /\ ~LiveAt(i, trace[i].id) => trace[i].ret = "Err"
                /\ RemovedBefore(i, trace[i].id) => trace[i].ret = "Err"
    \* the call in progress: the system is run exactly for a valid identifier
    /\ \A n \in 1..Len(stack) :
            stack[n].op = "run_system_by_id" =>
                /\ stack[n].pc \in {"run", "apply_deferred"} =>
                        LiveAt(Len(trace) + 1, stack[n].id)
                /\ stack[n].pc = "exit" =>
                        stack[n].ret = IF LiveAt(Len(trace) + 1, stack[n].id)
                                       THEN "Ok" ELSE "Err"

\* register, run, remove, run: Ok and then the error, for the identifier 1
C13_Witness ==
    /\ Idle
    /\ Len(trace) = 5
    /\ trace[2].op = "register_system" /\ trace[2].id = 1
    /\ trace[3].op = "run_system_by_id" /\ trace[3].id = 1 /\ trace[3].ret = "Ok"
    /\ trace[4].op = "remove" /\ trace[4].id = 1
    /\ trace[5].op = "run_system_by_id" /\ trace[5].id = 1 /\ trace[5].ret = "Err"

\* C14: a call of remove(id) returns without an error and deletes at most
\* the entry under id: last_id and every other entry (system object and
\* initialized flag) are as before, the world is untouched, and with no
\* entry under id the whole registry is as before.
C14_RemoveFrame ==
    [][Finishes("remove") =>
        LET id == Last(trace').id
            old == registryRes.reg
            new == registryRes'.reg
        IN  /\ abortMsg' = "none"
            /\ registryRes'.present
            /\ new.last_id = old.last_id
            /\ DOMAIN new.systems = DOMAIN old.systems \ {id}
            /\ \A i \in DOMAIN new.systems : new.systems[i] = old.systems[i]
            /\ id \notin DOMAIN old.systems => registryRes' = registryRes
            /\ world' = world]_vars

\* two registrations and remove(2): the entry 1 stays, last_id stays 2
C14_Witness ==
    /\ Idle
    /\ Len(trace) = 4
    /\ Last(trace).op = "remove"
    /\ Last(trace).id = 2
    /\ registryRes.reg.last_id = 2
    /\ DOMAIN registryRes.reg.systems = {1}

\* SystemRegistry::run_by_id on a registered identifier as one step, for a
\* system that queues spawns only: initialize when the flag is false, run,
\* apply the queued commands; the registry and the world it leaves
ByIdOutcome(reg, id, w) ==
    LET e == reg.systems[id]
        s0 == IF e.initialized THEN e.system ELSE Initialize(e.system)
        out == RunSystem(s0, w)
    IN  [registry |-> [reg EXCEPT !.systems[id] =
                          [initialized |-> TRUE,
                           system |-> [out.sys EXCEPT !.queue = <<>>]]],
         world |-> [out.world EXCEPT !.entities = @ + Len(out.sys.queue)]]

\* C15: the RunSystemById command applied with a registered identifier
\* leaves the world and the registry as run_by_id on that identifier leaves
\* them (initialized if needed, run once, queue flushed) and returns; applied
\* with an identifier that has no entry it panics on the unwrap, with the
\* world untouched: it never returns, neither with an error nor silently.
C15_CommandByIdUnwraps ==
    /\ [](\A i \in 2..Len(trace) :
            trace[i].op = "RunSystemById" => trace[i].ret = "Ok")
    /\ [](abortMsg = UnwrapOnErr =>
            /\ stack # <<>>
            /\ Top.op = "RunSystemById"
            /\ UnknownIdCall(Top)
            /\ world = Top.entry.world
            /\ Top.registry = Top.entry.registry)
    /\ [][ (Running /\ Top.op = "RunSystemById" /\ Top.pc = "exit") =>
             IF UnknownIdCall(Top)
             THEN abortMsg' = UnwrapOnErr /\ trace' = trace /\ stack' = stack
             ELSE LET out == ByIdOutcome(Top.entry.registry, Top.id, Top.entry.world)
                  IN  /\ abortMsg' = "none"
                      /\ Finishes("RunSystemById")
                      /\ world' = out.world
                      /\ registryRes' = Attached(out.registry) ]_vars

\* the command ran the registered spawn_entity, and applied again with an
\* identifier that has no entry it panicked
C15_Witness ==
    /\ abortMsg = UnwrapOnErr
    /\ Len(trace) = 3
    /\ trace[2].op = "register_system" /\ trace[2].kind = "spawn_entity"
    /\ trace[3].op = "RunSystemById" /\ trace[3].id = 1 /\ trace[3].ret = "Ok"
    /\ trace[3].entities = 1
    /\ Top.op = "RunSystemById" /\ Top.id = 2

\* SystemRegistry::run as one step: the new system object after its run, and
\* the world once the commands it queued are applied (spawns only)
AdHocRun(k, w) == RunSystem(Initialize(IntoSystem(k)), w)

AdHocOutcome(k, w) ==
    LET out == AdHocRun(k, w)
    IN  [out.world EXCEPT !.entities = @ + Len(out.sys.queue)]

\* the commands of a queue that start another one-shot execution
Offending(q) == {i \in 1..Len(q) : q[i].cmd # "spawn_empty"}

\* the world and the registry the call in progress, or the call this step
\* makes, started from
StartWorld == IF stack = <<>> THEN world ELSE Top.entry.world
StartRegistry == IF stack = <<>> THEN registryRes.reg ELSE Top.entry.registry

\* C16: RunSystemCommand::apply and World::run_system are the same function
\* of the system and the starting state: whichever of the two made the call,
\* it returns exactly when the system queued no command that starts another
\* execution (and panics with the RegistryNotFound message otherwise), and
\* when it returns the world is the starting world after one run of a newly
\* initialized system with every command it queued applied, and the
\* registry is the one the call started with.
C16_CommandIsRunSystem ==
    /\ [](\A n \in 1..Len(stack) :
            stack[n].op = "run_system" =>
                LET f == stack[n]
                    out == AdHocRun(f.kind, f.entry.world)
                IN  /\ f.pc = "exit" =>
                            /\ Offending(out.sys.queue) = {}
                            /\ world = AdHocOutcome(f.kind, f.entry.world)
                            /\ f.registry = f.entry.registry
                    /\ abortMsg # "none" =>
                            /\ Offending(out.sys.queue) # {}
                            /\ abortMsg = RegistryNotFound)
    /\ [][ Finishes("run_system") =>
             /\ world' = AdHocOutcome(Last(trace').kind, StartWorld)
             /\ Last(trace') = Event("run_system", Last(trace').via, Last(trace').kind,
                                     0, "Ok", world')
             /\ registryRes' = Attached(StartRegistry) ]_vars

\* spawn_entity run through World::run_system and then through the command:
\* one entity more after each
C16_Witness ==
    /\ Idle
    /\ Len(trace) = 3
    /\ trace[2].op = "run_system" /\ trace[2].via = "world"
    /\ trace[2].kind = "spawn_entity" /\ trace[2].entities = 1
    /\ trace[3].op = "run_system" /\ trace[3].via = "command"
    /\ trace[3].kind = "spawn_entity" /\ trace[3].entities = 2

\* C17: at most one detach-use-reattach cycle of the registry is in flight.
\* The registry is out of the World exactly while an execution started by
\* World::run_system, World::run_system_by_id or a command's apply is in
\* progress (initializing, running or flushing), there is never more than one
\* such execution, the registry is in the World between top-level calls, and
\* no step starts an execution while the registry is out.
C17_OneDetachInFlight ==
    /\ [](registryRes.present <=> stack = <<>>)
    /\ [](Len(stack) <= 1)
    /\ [](\A n \in 1..Len(stack) :
            stack[n].pc \in {"start", "run", "apply_deferred", "exit"})
    /\ [][ ~registryRes.present =>
             /\ Len(stack') <= Len(stack)
             /\ (registryRes'.present => stack' = <<>>) ]_vars
    /\ [][ Len(stack') > Len(stack) =>
             /\ registryRes.present
             /\ ~registryRes'.present
             /\ stack = <<>> ]_vars

\* a command's apply has the registry out and is flushing the commands of
\* the registered system it ran
C17_Witness ==
    /\ Running
    /\ ~registryRes.present
    /\ Len(stack) = 1
    /\ Top.op = "RunSystemById"
    /\ Top.pc = "apply_deferred"
    /\ Top.registry.systems[Top.id].system.kind = "count_to_ten"
    /\ CurSystem(Top).queue # <<>>

\* C18: an ad hoc run produces no identifier and leaves the registry as it
\* was before the call: all along the call the registry object it works on
\* equals the one it was given (last_id, the set of entries, and each
\* entry's flag and system object), the call returns Ok(()) with no
\* identifier, and what is back in the World after it is that registry.
C18_AdHocLeavesRegistry ==
    /\ [](\A n \in 1..Len(stack) :
            stack[n].op = "run_system" =>
                /\ stack[n].id = 0
                /\ stack[n].registry.last_id = stack[n].entry.registry.last_id
                /\ DOMAIN stack[n].registry.systems
                        = DOMAIN stack[n].entry.registry.systems
                /\ \A i \in DOMAIN stack[n].registry.systems :
                        stack[n].registry.systems[i]
                            = stack[n].entry.registry.systems[i])
    /\ [](\A i \in 2..Len(trace) :
            trace[i].op = "run_system" => trace[i].id = 0 /\ trace[i].ret = "Ok")
    /\ [][ Finishes("run_system") =>
             /\ registryRes'.present
             /\ registryRes'.reg.last_id = StartRegistry.last_id
             /\ registryRes'.reg.systems = StartRegistry.systems ]_vars

\* doubling registered and run by its identifier, then run ad hoc: the
\* registry still holds the one entry, with the state of its one run
C18_Witness ==
    /\ Idle
    /\ Len(trace) = 4
    /\ trace[2].op = "register_system" /\ trace[2].kind = "doubling"
    /\ trace[3].op = "run_system_by_id" /\ trace[3].ret = "Ok"
    /\ trace[4].op = "run_system" /\ trace[4].kind = "doubling"
    /\ registryRes.reg.last_id = 1
    /\ DOMAIN registryRes.reg.systems = {1}
    /\ registryRes.reg.systems[1].initialized
    /\ registryRes.reg.systems[1].system.runs = 1

\* C19: in every state of the registry, in the World or taken out of it by
\* an execution, every key of systems lies in 1..last_id: there are never
\* more entries than last_id, and the identifier the next registration will
\* return, last_id + 1, is not a key.
C19_KeysWithinLastId ==
    /\ DOMAIN CurRegistry.systems \subseteq 1..CurRegistry.last_id
    /\ Cardinality(DOMAIN CurRegistry.systems) <= CurRegistry.last_id
    /\ (CurRegistry.last_id + 1) \notin DOMAIN CurRegistry.systems
    /\ \A n \in 1..Len(stack) :
            DOMAIN stack[n].registry.systems \subseteq 1..stack[n].registry.last_id

\* the only entry was removed and a run by its identifier is returning Err:
\* last_id is 1 and no key is left
C19_Witness ==
    /\ Running
    /\ Top.op = "run_system_by_id"
    /\ Top.pc = "exit"
    /\ Top.id = 1
    /\ CurRegistry.last_id = 1
    /\ DOMAIN CurRegistry.systems = {}

\* the system object the frame's run step started from: the new object of an
\* ad hoc run, the stored one (initialized if it was not) of a run by
\* identifier
SystemAtRun(f) ==
    IF f.op = "run_system"
    THEN Initialize(IntoSystem(f.kind))
    ELSE LET e == f.entry.registry.systems[f.id]
         IN  IF e.initialized THEN e.system ELSE Initialize(e.system)

\* the place in the queue of the first command that starts an execution
FirstOffending(q) == CHOOSE m \in Offending(q) : \A n \in Offending(q) : m <= n

\* C20: when a system queues a command that starts another one-shot
\* execution, the "SystemRegistry not found" panic comes in the outer
\* execution's apply_deferred step, with the registry still out of the
\* World: the outer system has run once, the world holds what the run wrote
\* (the Counter reads 1 in the recursion test), every command queued before
\* the offending one has been applied and none after it, and the panic
\* itself changes neither the world nor the registry.
C20_AbortInOuterFlush ==
    /\ [](abortMsg = RegistryNotFound =>
            /\ Len(stack) = 1
            /\ Top.pc = "apply_deferred"
            /\ ~registryRes.present
            /\ LET s0 == SystemAtRun(Top)
                   out == RunSystem(s0, Top.entry.world)
                   q == out.sys.queue
               IN  /\ CurSystem(Top).runs = s0.runs + 1
                   /\ Offending(q) # {}
                   /\ world = [out.world EXCEPT
                                  !.entities = @ + (FirstOffending(q) - 1)]
                   /\ CurSystem(Top).queue = SubSeq(q, FirstOffending(q), Len(q))
                   /\ (s0.kind = "count_to_ten" /\ Top.entry.world.counter = 0)
                          => world.counter = 1)
    /\ [][ (abortMsg = "none" /\ abortMsg' = RegistryNotFound) =>
             /\ stack # <<>>
             /\ Top.pc = "apply_deferred"
             /\ CurSystem(Top).queue # <<>>
             /\ Head(CurSystem(Top).queue).cmd # "spawn_empty"
             /\ world' = world
             /\ registryRes' = registryRes ]_vars

\* spawn_then_run_by_id run ad hoc: the spawn it queued first is applied,
\* and the run by identifier queued after it panicked
C20_Witness ==
    /\ abortMsg = RegistryNotFound
    /\ Len(stack) = 1
    /\ Top.op = "run_system"
    /\ Top.kind = "spawn_then_run_by_id"
    /\ Top.pc = "apply_deferred"
    /\ world.entities = Top.entry.world.entities + 1
    /\ CurSystem(Top).queue = <<RunSystemById(1)>>

====
